---- MODULE Spec2Model ----
(***************************************************************************)
(* Model of python_compress_jst.py: scan the subfolders of SOURCE, bucket   *)
(* them by size, then archive each folder of the selected buckets into     *)
(* OUT/<name>.tar.zst through a tar | zstd pipeline, with retries, and      *)
(* optionally delete the source afterwards.                                *)
(*                                                                         *)
(* Representation choices:                                                 *)
(*  - Python None is the empty tuple <<>>, a present value v is <<v>>.     *)
(*  - a size in GB (a float rounded to 2 decimals) is the integer number   *)
(*    of hundredths of a GB.                                               *)
(*  - a byte count b is the record [mib, rem] with b = mib * 2^20 + rem,    *)
(*    0 <= rem < 2^20, so that sizes up to tens of TB fit the checker's     *)
(*    integers.                                                            *)
(*  - a file is "none" (no such file), "partial" (truncated or built from   *)
(*    a truncated stream), "old" (a complete archive that was there before  *)
(*    the run) or "new" (a complete archive produced by the run).           *)
(*    Where two runs are interleaved a file can also be "short": a          *)
(*    well-formed archive of a source tree that was being removed.          *)
(***************************************************************************)
EXTENDS Integers, Sequences, FiniteSets, TLC

\* ---------------------------------------------------------------- bounds
\* number of subfolders of SOURCE
MaxFolders == 2

\* number of times the environment misbehaves in one run: a size probe
\* without result, a source folder that vanished, a destination held open by
\* another process, an attempt that raises, a removal that raises
\* (interrupts are not counted)
MaxFaults == 2

\* ------------------------------------------------------------- constants
RETRIES == 2

None == <<>>

Some(v) == <<v>>

IsNum(x) == x # None

Val(x) == x[1]

\* ------------------------------------------------------------- buckets
BUCKET_ORDER ==
  << "<1 GB", "1-10 GB", "10-50 GB", "50-200 GB",
     "200-500 GB", "500 GB-1 TB", "1-10 TB", "10 TB+", "Unknown" >>

InOrder(b) == \E i \in 1..Len(BUCKET_ORDER) : BUCKET_ORDER[i] = b

\* BUCKET_ORDER.index(b), 1-based
IndexOf(b) == CHOOSE i \in 1..Len(BUCKET_ORDER) :
                 /\ BUCKET_ORDER[i] = b
                 /\ \A j \in 1..(i-1) : BUCKET_ORDER[j] # b

\* bucketize with the first threshold taken inclusively (gb <= 1)
bucketize_inclusive(gb) ==
  IF gb = None THEN "Unknown"
  ELSE IF Val(gb) <= 100 THEN "<1 GB"
  ELSE IF Val(gb) < 1000 THEN "1-10 GB"
  ELSE IF Val(gb) < 5000 THEN "10-50 GB"
  ELSE IF Val(gb) < 20000 THEN "50-200 GB"
  ELSE IF Val(gb) < 50000 THEN "200-500 GB"
  ELSE IF Val(gb) < 100000 THEN "500 GB-1 TB"
  ELSE IF Val(gb) < 1000000 THEN "1-10 TB"
  ELSE "10 TB+"

\* gb is None or Some(c), c hundredths of a GB
bucketize(gb) ==
  IF gb = None THEN "Unknown"
  ELSE IF Val(gb) < 100 THEN "<1 GB"
  ELSE IF Val(gb) < 1000 THEN "1-10 GB"
  ELSE IF Val(gb) < 5000 THEN "10-50 GB"
  ELSE IF Val(gb) < 20000 THEN "50-200 GB"
  ELSE IF Val(gb) < 50000 THEN "200-500 GB"
  ELSE IF Val(gb) < 100000 THEN "500 GB-1 TB"
  ELSE IF Val(gb) < 1000000 THEN "1-10 TB"
  ELSE "10 TB+"

Two20 == 1048576

\* round(b / 1024**3, 2) in hundredths: b * 100 / 2^30 rounded to the
\* nearest integer, an exact tie going to the even neighbour.
bytes_to_gb(b) ==
  LET a    == b.mib * 100 + ((b.rem * 100) \div Two20)
      lo   == (b.rem * 100) % Two20
      q    == a \div 1024
      frac == (a % 1024) * Two20 + lo      \* numerator over 2^30
      half == 512 * Two20
  IN  IF frac > half THEN q + 1
      ELSE IF frac < half THEN q
      ELSE IF q % 2 = 0 THEN q ELSE q + 1

\* BUCKET_ORDER[si:mi+1] with 1-based inclusive positions
Slice(s, lo, hi) == [k \in 1..(hi - lo + 1) |-> s[lo + k - 1]]

buckets_to_run_swapless(start, max) ==
  LET sb == IF InOrder(start) THEN start ELSE "<1 GB"
      mb == IF InOrder(max) THEN max ELSE "50-200 GB"
  IN  IF IndexOf(mb) < IndexOf(sb) THEN <<>>
      ELSE Slice(BUCKET_ORDER, IndexOf(sb), IndexOf(mb))

buckets_to_run(start, max) ==
  LET sb  == IF InOrder(start) THEN start ELSE "<1 GB"
      mb  == IF InOrder(max) THEN max ELSE "50-200 GB"
      si0 == IndexOf(sb)
      mi0 == IndexOf(mb)
      si  == IF mi0 < si0 THEN mi0 ELSE si0
      mi  == IF mi0 < si0 THEN si0 ELSE mi0
  IN  Slice(BUCKET_ORDER, si, mi)

\* ------------------------------------------------------------- inputs
FolderNames == << "a", "b", "c", "d" >>

\* sorted(SOURCE.iterdir(), key=name.lower()), OUT excluded
Subfolders == [i \in 1..MaxFolders |-> FolderNames[i]]

Folders == {Subfolders[i] : i \in 1..MaxFolders}

Bytes(m, r) == [mib |-> m, rem |-> r]

\* 0.25 GB, 0.5 GB and 600 GB
SizeSamples == { Bytes(256, 0), Bytes(512, 0), Bytes(614400, 0) }

\* (START_BUCKET, MAX_BUCKET) pairs of the run specification
RangeSamples == { << "<1 GB", "50-200 GB" >>, << "Unknown", "<1 GB" >> }

\* what subprocess.run(robocopy) gives back: a "Bytes :" line with a number,
\* no output, no line starting with "Bytes", a "Bytes" line BYTES_RE does not
\* match, a "Bytes :" line whose [\d,]+ group has commas only, or robocopy
\* cannot be started
ProbeOutcomes ==
  { "ok", "no_output", "no_bytes_line", "bytes_no_int", "bytes_commas_only",
    "spawn_error" }

\* the exception run_robocopy_total_bytes raises, "" when it returns:
\* subprocess.run raises when the program cannot be started (line 104),
\* int("") raises ValueError (line 118)
ProbeRaises(outcome) ==
  IF outcome = "spawn_error" THEN "OSError"
  ELSE IF outcome = "bytes_commas_only" THEN "ValueError"
  ELSE ""

ArcPath(f) == f \o ".tar.zst"

\* ------------------------------------------------------------- state
VARIABLES
  DELETE_AFTER_ARCHIVE,    \* config flag
  SKIP_EXISTING_ARCHIVES,  \* config flag
  START_BUCKET,            \* config
  MAX_BUCKET,              \* config
  bytes_of,                \* the byte count the size probe returned for each
                           \*   folder, None before the scan and on failure
  src,                     \* disk: "present", "vanished" (removed by someone
                           \*   else), "partial" (rmtree stopped midway),
                           \*   "deleted" (rmtree finished)
  final,                   \* disk: content of OUT/<name>.tar.zst
  final0,                  \* content of OUT/<name>.tar.zst when the run began
  tmp,                     \* disk: content of tmp_arc, the temporary path
                           \*   OUT/<name>._tmp_<uuid>.tar.zst of the folder
                           \*   being processed (a fresh path per folder; the
                           \*   file left at an earlier folder's path is not
                           \*   followed further)
  pc,                      \* position of main()
  exc,                     \* exception that left main(), "" if none
  si,                      \* scan loop: index into Subfolders
  scan_rows,
  run_buckets,
  bi,                      \* index into run_buckets
  items,
  ii,                      \* index into items
  attempt,
  ok,
  last_err,
  arch_log,
  log_file,                \* None until archive_log_<stamp>.csv is written
  totals_after,            \* TRUE once the after-archiving totals are printed
  attempts,                \* history: the result of each attempt made for
                           \*   the folder being processed
  held,                    \* history: whether another process held final_arc
                           \*   open when the folder was last probed
  faults,                  \* history: how often the environment misbehaved
  rcs,                     \* history: the exit codes <<tar, zstd>> of the
                           \*   pipeline of the last attempt made for the
                           \*   folder being processed, <<>> if it has none
  runs                     \* two runs of the tool on the same SOURCE and OUT,
                           \*   followed for one folder: for each its position
                           \*   in lines 365-427, its temporary file, its
                           \*   attempt counter and the status it recorded;
                           \*   <<>> when a single run is modelled

vars == << DELETE_AFTER_ARCHIVE, SKIP_EXISTING_ARCHIVES, START_BUCKET, MAX_BUCKET,
           bytes_of, src, final, final0, tmp, pc, exc, si, scan_rows,
           run_buckets, bi, items, ii, attempt, ok, last_err, arch_log,
           log_file, totals_after, attempts, held, faults, rcs, runs >>

\* what no step of a single run changes
cfgVars == << DELETE_AFTER_ARCHIVE, SKIP_EXISTING_ARCHIVES, START_BUCKET, MAX_BUCKET,
              final0, runs >>

InitRun ==
  /\ bytes_of = [f \in Folders |-> None]
  /\ src = [f \in Folders |-> "present"]
  /\ final \in [Folders -> {"none", "old"}]
  /\ final0 = final
  /\ tmp = "none"
  /\ pc = "scan"
  /\ exc = ""
  /\ si = 1
  /\ scan_rows = <<>>
  /\ run_buckets = <<>>
  /\ bi = 1
  /\ items = <<>>
  /\ ii = 1
  /\ attempt = 1
  /\ ok = FALSE
  /\ last_err = ""
  /\ arch_log = <<>>
  /\ log_file = None
  /\ totals_after = FALSE
  /\ attempts = <<>>
  /\ held = FALSE
  /\ faults = 0
  /\ rcs = <<>>
  /\ runs = <<>>

Init ==
  /\ DELETE_AFTER_ARCHIVE \in BOOLEAN
  /\ SKIP_EXISTING_ARCHIVES \in BOOLEAN
  /\ \E r \in RangeSamples : START_BUCKET = r[1] /\ MAX_BUCKET = r[2]
  /\ InitRun

\* a fault counts one
Cost(isFault) == IF isFault THEN 1 ELSE 0

\* ------------------------------------------------------------- scan
\* the value run_robocopy_total_bytes returns for an outcome that does not
\* raise, b being the number on the "Bytes :" line
run_robocopy_total_bytes(outcome, b) ==
  IF outcome = "ok" THEN Some(b) ELSE None

ScanRow(f, b) ==
  IF b = None
  THEN [folder |-> f, name |-> f, size_gb |-> None, bucket |-> "Unknown",
        status |-> "SIZE_FAILED"]
  ELSE [folder |-> f, name |-> f, size_gb |-> Some(bytes_to_gb(Val(b))),
        bucket |-> bucketize(Some(bytes_to_gb(Val(b)))), status |-> "OK"]

\* one iteration of "for sf in subfolders" (lines 278-300)
ScanFolder ==
  /\ pc = "scan"
  /\ si <= Len(Subfolders)
  /\ \E o \in ProbeOutcomes, b \in SizeSamples :
       IF ProbeRaises(o) # ""
       THEN /\ pc' = "crashed"
            /\ exc' = ProbeRaises(o)
            /\ UNCHANGED << si, scan_rows, bytes_of, faults >>
       ELSE /\ faults + Cost(o # "ok") <= MaxFaults
            /\ faults' = faults + Cost(o # "ok")
            /\ bytes_of' = [bytes_of EXCEPT ![Subfolders[si]] =
                               run_robocopy_total_bytes(o, b)]
            /\ scan_rows' = Append(scan_rows,
                 ScanRow(Subfolders[si], run_robocopy_total_bytes(o, b)))
            /\ si' = si + 1
            /\ UNCHANGED << pc, exc >>
  /\ UNCHANGED << cfgVars, rcs, held, src, final, tmp, run_buckets, bi, items, ii,
                  attempt, ok, last_err, arch_log, log_file, totals_after,
                  attempts >>

\* lines 302-349: reports are written, the bucket range is selected
SelectBuckets ==
  /\ pc = "scan"
  /\ si > Len(Subfolders)
  /\ run_buckets' = buckets_to_run(START_BUCKET, MAX_BUCKET)
  /\ bi' = 1
  /\ arch_log' = <<>>
  /\ pc' = "bucket"
  /\ UNCHANGED << cfgVars, rcs, faults, held, bytes_of,
                  src, final, tmp, exc, si, scan_rows, items, ii,
                  attempt, ok, last_err, log_file, totals_after, attempts >>

\* ------------------------------------------------------------- archive
\* sort key of line 352; 10**18 stands for a row without a size
NoSizeKey == 2147483647

SizeKey(r) == IF IsNum(r.size_gb) THEN Val(r.size_gb) ELSE NoSizeKey

SelectSeq2(s, b) == SelectSeq(s, LAMBDA r : r.bucket = b /\ r.status = "OK")

\* insert r after every element whose key is <= r's (list.sort is stable)
RECURSIVE InsertByKey(_, _)
InsertByKey(s, r) ==
  IF s = <<>> THEN << r >>
  ELSE IF SizeKey(Head(s)) <= SizeKey(r)
       THEN << Head(s) >> \o InsertByKey(Tail(s), r)
       ELSE << r >> \o s

RECURSIVE SortBySize(_)
SortBySize(s) ==
  IF s = <<>> THEN <<>>
  ELSE InsertByKey(SortBySize(SubSeq(s, 1, Len(s) - 1)), s[Len(s)])

\* lines 351-352 without the status filter
ItemsOfAnyStatus(rows, b) == SortBySize(SelectSeq(rows, LAMBDA r : r.bucket = b))

\* line 351 without the sort of line 352
ItemsOf_unsorted(rows, b) == SelectSeq2(rows, b)

\* lines 351-352
ItemsOf(rows, b) == SortBySize(SelectSeq2(rows, b))

LogRow(b, f, arc, gb, st, note) ==
  [bucket |-> b, folder |-> f, archive |-> arc, size_gb |-> gb,
   status |-> st, note |-> note]

CurBucket == run_buckets[bi]

CurRow == items[ii]

CurFolder == items[ii].folder

\* arch_log[0] written where arch_log[-1] is meant
SetLast_first(log, st, note) ==
  [log EXCEPT ![1] = [@ EXCEPT !.status = st, !.note = note]]

\* arch_log[-1]["status"] = st; arch_log[-1]["note"] = note
SetLast(log, st, note) ==
  [log EXCEPT ![Len(log)] = [@ EXCEPT !.status = st, !.note = note]]

\* the first position from `from` on whose bucket has items, one past the
\* end of run_buckets when there is none
NextWithItems(from) ==
  LET with == {k \in from..Len(run_buckets) : ItemsOf(scan_rows, run_buckets[k]) # <<>>}
  IN  IF with = {} THEN Len(run_buckets) + 1
      ELSE CHOOSE k \in with : \A m \in with : k <= m

\* "for b in run_buckets" (lines 350-359): the iterations over buckets
\* without items (line 356, continue) up to the next bucket that has items,
\* or to the end of the loop
NextBucket ==
  /\ pc = "bucket"
  /\ bi' = NextWithItems(bi)
  /\ IF NextWithItems(bi) > Len(run_buckets)
     THEN /\ pc' = "save"
          /\ UNCHANGED << items, ii >>
     ELSE /\ items' = ItemsOf(scan_rows, run_buckets[NextWithItems(bi)])
          /\ ii' = 1
          /\ pc' = "folder"
  /\ UNCHANGED << cfgVars, rcs, faults, held, bytes_of,
                  src, final, tmp, exc, si, scan_rows, run_buckets,
                  attempt, ok, last_err, arch_log, log_file, totals_after,
                  attempts >>

\* end of "for r in items", then lines 429-430
EndBucket ==
  /\ pc = "folder" /\ ii > Len(items)
  /\ IF arch_log # <<>> /\ arch_log[Len(arch_log)].note = "KeyboardInterrupt"
     THEN pc' = "save" /\ UNCHANGED bi
     ELSE pc' = "bucket" /\ bi' = bi + 1
  /\ items' = <<>>
  /\ ii' = 1
  /\ tmp' = "none"
  /\ attempts' = <<>>
  /\ rcs' = <<>>
  /\ UNCHANGED << cfgVars, faults, held, bytes_of,
                  src, final, exc, si, scan_rows, run_buckets,
                  attempt, ok, last_err, arch_log, log_file, totals_after >>

\* is_locked(path) given whether another process holds the file open
is_locked(content, h) == IF content = "none" THEN FALSE ELSE h

\* only a file that exists can be held open by another process
HeldInputs(content) == IF content = "none" THEN {FALSE} ELSE BOOLEAN

\* lines 365-380 with the lock probe moved before the skip-existing test
Decide_lock_first(srcThere, content, h) ==
  IF ~srcThere THEN "MISSING"
  ELSE IF is_locked(content, h) THEN "SKIP_LOCKED_ARCHIVE"
  ELSE IF SKIP_EXISTING_ARCHIVES /\ content # "none" THEN "SKIP_EXISTS"
  ELSE "ATTEMPT"

\* lines 365-380 with the skip-existing test left out
Decide_no_skip(srcThere, content, h) ==
  IF ~srcThere THEN "MISSING"
  ELSE IF is_locked(content, h) THEN "SKIP_LOCKED_ARCHIVE"
  ELSE "ATTEMPT"

\* the decision of lines 365-380 for a folder: the source is there or not,
\* the destination holds `content`, is held open by someone else or not
Decide(srcThere, content, h) ==
  IF ~srcThere THEN "MISSING"
  ELSE IF SKIP_EXISTING_ARCHIVES /\ content # "none" THEN "SKIP_EXISTS"
  ELSE IF is_locked(content, h) THEN "SKIP_LOCKED_ARCHIVE"
  ELSE "ATTEMPT"

\* lines 361-384 for one folder: the three skip decisions, or start the
\* retry loop.  The folder may have vanished since the scan, and another
\* process may hold the destination open.
CheckFolder ==
  /\ pc = "folder" /\ ii <= Len(items)
  /\ \E gone \in BOOLEAN, h \in HeldInputs(final[CurFolder]) :
       LET f  == CurFolder
           s2 == IF gone THEN "vanished" ELSE src[f]
           d  == Decide(s2 \in {"present", "partial"}, final[f], h)
       IN  /\ faults + Cost(gone) + Cost(h) <= MaxFaults
           /\ faults' = faults + Cost(gone) + Cost(h)
           /\ src' = [src EXCEPT ![f] = s2]
           /\ held' = h
           /\ IF d = "ATTEMPT"
              THEN /\ attempt' = 1
                   /\ ok' = FALSE
                   /\ last_err' = ""
                   /\ pc' = "attempt"
                   /\ UNCHANGED << arch_log, ii >>
              ELSE /\ arch_log' = Append(arch_log,
                        LogRow(CurBucket, f,
                               IF d = "MISSING" THEN "" ELSE ArcPath(f),
                               CurRow.size_gb, d, ""))
                   /\ ii' = ii + 1
                   /\ UNCHANGED << attempt, ok, last_err, pc >>
  /\ tmp' = "none"
  /\ attempts' = <<>>
  /\ rcs' = <<>>
  /\ UNCHANGED << cfgVars, bytes_of, final, exc, si, scan_rows, run_buckets, bi,
                  items, log_file, totals_after >>

\* a KeyboardInterrupt while lines 365-382 run is caught nowhere
InterruptCheck ==
  /\ pc = "folder" /\ ii <= Len(items)
  /\ pc' = "crashed"
  /\ exc' = "KeyboardInterrupt"
  /\ UNCHANGED << cfgVars, rcs, faults, held, bytes_of,
                  src, final, tmp, si, scan_rows, run_buckets, bi,
                  items, ii, attempt, ok, last_err, arch_log, log_file,
                  totals_after, attempts >>

\* ------------------------------------------------------------- pipeline
TAR_ERR == "tar: stderr text"

ZSTD_ERR == "zstd: stderr text"

\* exit codes the two stages can end with
TarCodes == {0, 2}

ZstdCodes == {0, 1}

\* what zstd leaves at its -o path: a complete archive only when tar fed it
\* the whole tree and zstd itself ended well
PipelineOutput(tar_rc, zstd_rc) ==
  IF tar_rc = 0 /\ zstd_rc = 0 THEN "new" ELSE "partial"

\* lines 145-148 with the test of tar's exit code left out
tar_zst_dir_contents_zstd_only(tar_rc, zstd_rc) ==
  IF zstd_rc # 0
  THEN "zstd failed (rc=" \o ToString(zstd_rc) \o "): " \o ZSTD_ERR
  ELSE ""

\* tar_zst_dir_contents: the message of the RuntimeError it raises, "" when
\* it returns normally
tar_zst_dir_contents(tar_rc, zstd_rc) ==
  IF tar_rc # 0
  THEN "tar failed (rc=" \o ToString(tar_rc) \o "): " \o TAR_ERR
  ELSE IF zstd_rc # 0
  THEN "zstd failed (rc=" \o ToString(zstd_rc) \o "): " \o ZSTD_ERR
  ELSE ""

\* file system calls of the try block that can raise OSError
FsFaults == { "no_fault", "unlink_final", "replace" }

\* lines 388-396 with a failed rename passing for a success
TryBody_rename_unchecked(t0, f0, tar_rc, zstd_rc, fault) ==
  IF tar_zst_dir_contents(tar_rc, zstd_rc) # ""
  THEN [err |-> tar_zst_dir_contents(tar_rc, zstd_rc),
        tmp |-> PipelineOutput(tar_rc, zstd_rc), final |-> f0]
  ELSE IF f0 # "none" /\ fault = "unlink_final"
  THEN [err |-> "OSError: unlink final",
        tmp |-> PipelineOutput(tar_rc, zstd_rc), final |-> f0]
  ELSE IF fault = "replace"
  THEN [err |-> "", tmp |-> PipelineOutput(tar_rc, zstd_rc), final |-> "none"]
  ELSE [err |-> "", tmp |-> "none", final |-> PipelineOutput(tar_rc, zstd_rc)]

\* lines 388-396 run to their end or to the first exception: the error
\* message ("" for none) and the two files afterwards
TryBody(t0, f0, tar_rc, zstd_rc, fault) ==
  IF tar_zst_dir_contents(tar_rc, zstd_rc) # ""
  THEN [err |-> tar_zst_dir_contents(tar_rc, zstd_rc),
        tmp |-> PipelineOutput(tar_rc, zstd_rc), final |-> f0]
  ELSE IF f0 # "none" /\ fault = "unlink_final"
  THEN [err |-> "OSError: unlink final",
        tmp |-> PipelineOutput(tar_rc, zstd_rc), final |-> f0]
  ELSE IF fault = "replace"
  THEN [err |-> "OSError: replace",
        tmp |-> PipelineOutput(tar_rc, zstd_rc), final |-> "none"]
  ELSE [err |-> "", tmp |-> "none", final |-> PipelineOutput(tar_rc, zstd_rc)]

\* range(1, RETRIES) instead of range(1, RETRIES + 1)
MoreAttempts_one_short(a) == a < RETRIES

\* range(1, RETRIES + 1) still has a value for the loop variable
MoreAttempts(a) == a <= RETRIES

\* line 415 with the break left out
NextItem_no_break(err, i, n) == i + 1

\* line 417 with break where continue is meant
NextItem_break_always(err, i, n) == n + 1

\* lines 415-417: the index the items loop goes on with after a failed
\* folder; past the end (break) when the failure was an interrupt
NextItem(err, i, n) == IF err = "KeyboardInterrupt" THEN n + 1 ELSE i + 1

\* lines 412-414: the row of a folder whose retry loop ended with ok False
FailedRow(err) ==
  LogRow(CurBucket, CurFolder, ArcPath(CurFolder), CurRow.size_gb,
         "ARCHIVE_FAILED", err)

\* line 419 without the test of the flag
AfterArchived_always(del) == "delete"

\* line 419: where main() goes on after the row ARCHIVED, the source removal
\* or the next item
AfterArchived(del) == IF del THEN "delete" ELSE "folder"

\* one pass of the retry loop without interrupt: lines 386-401 and 412-419
\* when the attempt succeeds, lines 386-396 and 407-409 when it fails
Attempt ==
  /\ pc = "attempt" /\ MoreAttempts(attempt)
  /\ \E tar_rc \in TarCodes, zstd_rc \in ZstdCodes, fault \in FsFaults :
       LET f == CurFolder
           r == TryBody(tmp, final[f], tar_rc, zstd_rc, fault)
           c == Cost(tar_rc # 0 \/ zstd_rc # 0 \/ fault # "no_fault")
       IN  /\ faults + c <= MaxFaults
           /\ rcs' = << tar_rc, zstd_rc >>
           /\ faults' = faults + c
           /\ tmp' = r.tmp
           /\ final' = [final EXCEPT ![f] = r.final]
           /\ IF r.err = ""
              THEN /\ ok' = TRUE
                   /\ arch_log' = Append(arch_log,
                         LogRow(CurBucket, f, ArcPath(f), CurRow.size_gb,
                                "ARCHIVED", ""))
                   /\ attempts' = Append(attempts, "ok")
                   /\ pc' = AfterArchived(DELETE_AFTER_ARCHIVE)
                   /\ ii' = IF AfterArchived(DELETE_AFTER_ARCHIVE) = "delete"
                            THEN ii ELSE ii + 1
                   /\ UNCHANGED last_err
              ELSE /\ last_err' = r.err
                   /\ attempts' = Append(attempts, r.err)
                   /\ pc' = "sleep"
                   /\ UNCHANGED << ok, arch_log, ii >>
  /\ UNCHANGED << cfgVars, held, bytes_of, src, exc, si, scan_rows, run_buckets,
                  bi, items, attempt, log_file, totals_after >>

\* where in the try block a KeyboardInterrupt can arrive
InterruptPoints == { "pipeline", "unlinked", "replaced" }

\* a KeyboardInterrupt inside the try block (lines 402-406, then 412-416):
\* while the pipeline runs, or, the pipeline having returned without error,
\* after the old archive was unlinked (the files are as after a failed
\* rename) or after the rename (the files are as after the whole try body)
InterruptAttempt ==
  /\ pc = "attempt" /\ MoreAttempts(attempt)
  /\ \E at \in InterruptPoints, tar_rc \in TarCodes, zstd_rc \in ZstdCodes :
       LET f == CurFolder
           r == TryBody(tmp, final[f], tar_rc, zstd_rc,
                        IF at = "unlinked" THEN "replace" ELSE "no_fault")
       IN  /\ at # "pipeline" => tar_zst_dir_contents(tar_rc, zstd_rc) = ""
           /\ tmp' = IF at = "pipeline" THEN "partial" ELSE r.tmp
           /\ rcs' = IF at = "pipeline" THEN <<>> ELSE << tar_rc, zstd_rc >>
           /\ final' = [final EXCEPT ![f] = IF at = "pipeline" THEN @ ELSE r.final]
  /\ attempts' = Append(attempts, "KeyboardInterrupt")
  /\ ok' = FALSE
  /\ last_err' = "KeyboardInterrupt"
  /\ arch_log' = Append(arch_log, FailedRow("KeyboardInterrupt"))
  /\ ii' = NextItem("KeyboardInterrupt", ii, Len(items))
  /\ pc' = "folder"
  /\ UNCHANGED << cfgVars, faults, held, bytes_of, src, exc, si, scan_rows, run_buckets,
                  bi, items, attempt, log_file, totals_after >>

\* time.sleep(SLEEP_BETWEEN_RETRIES_SEC) of line 410 returns; the loop goes
\* on with the next attempt or is over, and then lines 412-417 record the
\* failure
Sleep ==
  /\ pc = "sleep"
  /\ attempt' = attempt + 1
  /\ IF MoreAttempts(attempt + 1)
     THEN /\ pc' = "attempt"
          /\ UNCHANGED << arch_log, ii >>
     ELSE /\ arch_log' = Append(arch_log, FailedRow(last_err))
          /\ ii' = NextItem(last_err, ii, Len(items))
          /\ pc' = "folder"
  /\ UNCHANGED << cfgVars, rcs, faults, held, bytes_of, src, final, tmp, exc, si, scan_rows,
                  run_buckets, bi, items, ok, last_err, log_file, totals_after,
                  attempts >>

\* a KeyboardInterrupt during line 410: the handler of line 402 does not
\* cover the except block, the exception leaves main()
InterruptSleep ==
  /\ pc = "sleep"
  /\ pc' = "crashed"
  /\ exc' = "KeyboardInterrupt"
  /\ UNCHANGED << cfgVars, rcs, faults, held, bytes_of, src, final, tmp, si, scan_rows,
                  run_buckets, bi, items, ii, attempt, ok, last_err, arch_log,
                  log_file, totals_after, attempts >>

\* lines 423-427 with a failed removal leaving the status ARCHIVED
DeleteMark_keeps_archived(log, removedAll) ==
  IF removedAll THEN SetLast(log, "DELETED", log[Len(log)].note)
  ELSE SetLast(log, "ARCHIVED", "OSError: rmtree")

\* status and note of the last row after shutil.rmtree (lines 423, 426-427)
DeleteMark(log, removedAll) ==
  IF removedAll THEN SetLast(log, "DELETED", log[Len(log)].note)
  ELSE SetLast(log, "DELETE_FAILED", "OSError: rmtree")

\* lines 419-427: shutil.rmtree removes the tree, or raises after removing
\* nothing or a part of it
DeleteSource ==
  /\ pc = "delete"
  /\ \E left \in {"deleted", "partial", "present"} :
       /\ faults + Cost(left # "deleted") <= MaxFaults
       /\ faults' = faults + Cost(left # "deleted")
       /\ src' = [src EXCEPT ![CurFolder] = left]
       /\ arch_log' = DeleteMark(arch_log, left = "deleted")
  /\ ii' = ii + 1
  /\ pc' = "folder"
  /\ UNCHANGED << cfgVars, rcs, held, bytes_of,
                  final, tmp, exc, si, scan_rows, run_buckets, bi,
                  items, attempt, ok, last_err, log_file, totals_after,
                  attempts >>

\* a KeyboardInterrupt during shutil.rmtree: "except Exception" does not
\* catch it
InterruptDelete ==
  /\ pc = "delete"
  /\ \E left \in {"partial", "present"} : src' = [src EXCEPT ![CurFolder] = left]
  /\ pc' = "crashed"
  /\ exc' = "KeyboardInterrupt"
  /\ UNCHANGED << cfgVars, rcs, faults, held, bytes_of,
                  final, tmp, si, scan_rows, run_buckets, bi, items, ii,
                  attempt, ok, last_err, arch_log, log_file, totals_after,
                  attempts >>

\* lines 432-456
SaveLog ==
  /\ pc = "save"
  /\ log_file' = Some(arch_log)
  /\ totals_after' = TRUE
  /\ pc' = "done"
  /\ UNCHANGED << cfgVars, rcs, faults, held, bytes_of,
                  src, final, tmp, exc, si, scan_rows, run_buckets, bi,
                  items, ii, attempt, ok, last_err, arch_log, attempts >>

Next ==
  \/ ScanFolder
  \/ SelectBuckets
  \/ NextBucket
  \/ EndBucket
  \/ CheckFolder
  \/ InterruptCheck
  \/ Attempt
  \/ InterruptAttempt
  \/ Sleep
  \/ InterruptSleep
  \/ DeleteSource
  \/ InterruptDelete
  \/ SaveLog

Spec == Init /\ [][Next]_vars

TypeOK ==
  /\ pc \in {"scan", "bucket", "folder", "attempt", "sleep", "delete",
             "save", "done", "crashed"}
  /\ \A f \in Folders : final[f] \in {"none", "old", "new", "partial", "short"}

\* ------------------------------------------------- run without cancellation
\* results of the size probe for the folders of the archive phase: none,
\* 0.5 GB, 600 GB
ScannedSizes == { None, Some(Bytes(512, 0)), Some(Bytes(614400, 0)) }

\* main() at line 345, the scan done, for every configuration, every result
\* of the scan and every set of archives left in OUT
InitArchive ==
  /\ DELETE_AFTER_ARCHIVE \in BOOLEAN
  /\ SKIP_EXISTING_ARCHIVES \in BOOLEAN
  /\ \E r \in RangeSamples : START_BUCKET = r[1] /\ MAX_BUCKET = r[2]
  /\ bytes_of \in [Folders -> ScannedSizes]
  /\ src = [f \in Folders |-> "present"]
  /\ final \in [Folders -> {"none", "old"}]
  /\ final0 = final
  /\ tmp = "none"
  /\ pc = "scan"
  /\ exc = ""
  /\ si = Len(Subfolders) + 1
  /\ scan_rows = [i \in 1..Len(Subfolders) |->
                    ScanRow(Subfolders[i], bytes_of[Subfolders[i]])]
  /\ run_buckets = <<>>
  /\ bi = 1
  /\ items = <<>>
  /\ ii = 1
  /\ attempt = 1
  /\ ok = FALSE
  /\ last_err = ""
  /\ arch_log = <<>>
  /\ log_file = None
  /\ totals_after = FALSE
  /\ attempts = <<>>
  /\ held = FALSE
  /\ faults = 0
  /\ rcs = <<>>
  /\ runs = <<>>

\* the steps of lines 345-456 when no KeyboardInterrupt arrives
NextNoCancel ==
  \/ SelectBuckets
  \/ NextBucket
  \/ EndBucket
  \/ CheckFolder
  \/ Attempt
  \/ Sleep
  \/ DeleteSource
  \/ SaveLog

\* main() is one sequential thread and every call it makes returns or
\* raises: a step that can be taken is taken
SpecNoCancel == InitArchive /\ [][NextNoCancel]_vars /\ WF_vars(NextNoCancel)

\* ------------------------------------------------- two interleaved runs
\* Two runs of main() with the same configuration, both in the items loop
\* at the same folder.  Each file system call of lines 365-427 is a step of
\* its own.  Besides "none", "partial" and "new" a file can be "short": a
\* well-formed archive that lacks the files already removed from the source
\* when tar read it.
Runs == {1, 2}

RunFolder == Subfolders[1]

\* the variables of the single run, which these steps leave alone
soloVars == << DELETE_AFTER_ARCHIVE, SKIP_EXISTING_ARCHIVES, START_BUCKET,
               MAX_BUCKET, bytes_of, final0, tmp, pc, exc, si, scan_rows,
               run_buckets, bi, items, ii, attempt, ok, last_err, arch_log,
               log_file, totals_after, attempts, held, faults, rcs >>

RunAt(r, where) == runs[r].pc = where

Goto(r, where) == runs' = [runs EXCEPT ![r].pc = where]

Finish(r, st) == runs' = [runs EXCEPT ![r].pc = "done", ![r].status = st]

\* both runs at line 365 for RunFolder, which has no archive yet or the
\* archive of an earlier run
InitTwoRuns ==
  /\ DELETE_AFTER_ARCHIVE \in BOOLEAN
  /\ SKIP_EXISTING_ARCHIVES \in BOOLEAN
  /\ START_BUCKET = "<1 GB"
  /\ MAX_BUCKET = "50-200 GB"
  /\ bytes_of = [f \in Folders |-> Some(Bytes(512, 0))]
  /\ src = [f \in Folders |-> "present"]
  /\ final \in [Folders -> {"none", "old"}]
  /\ final0 = final
  /\ tmp = "none"
  /\ pc = "folder"
  /\ exc = ""
  /\ si = Len(Subfolders) + 1
  /\ scan_rows = [i \in 1..Len(Subfolders) |->
                    ScanRow(Subfolders[i], Some(Bytes(512, 0)))]
  /\ run_buckets = buckets_to_run(START_BUCKET, MAX_BUCKET)
  /\ bi = 1
  /\ items = ItemsOf(scan_rows, "<1 GB")
  /\ ii = 1
  /\ attempt = 1
  /\ ok = FALSE
  /\ last_err = ""
  /\ arch_log = <<>>
  /\ log_file = None
  /\ totals_after = FALSE
  /\ attempts = <<>>
  /\ held = FALSE
  /\ faults = 0
  /\ rcs = <<>>
  /\ runs = [r \in Runs |-> [pc |-> "exists", tmp |-> "none", attempt |-> 1,
                             status |-> ""]]

\* line 365: folder.exists()
RunExists(r) ==
  /\ RunAt(r, "exists")
  /\ IF src[RunFolder] = "deleted" THEN Finish(r, "MISSING") ELSE Goto(r, "skip")
  /\ UNCHANGED << soloVars, src, final >>

\* line 372: SKIP_EXISTING_ARCHIVES and final_arc.exists()
RunSkipCheck(r) ==
  /\ RunAt(r, "skip")
  /\ IF SKIP_EXISTING_ARCHIVES /\ final[RunFolder] # "none"
     THEN Finish(r, "SKIP_EXISTS")
     ELSE Goto(r, "locked")
  /\ UNCHANGED << soloVars, src, final >>

\* is_locked, line 67: path.exists()
RunLockExists(r) ==
  /\ RunAt(r, "locked")
  /\ IF final[RunFolder] = "none" THEN Goto(r, "pipeline") ELSE Goto(r, "open")
  /\ UNCHANGED << soloVars, src, final >>

\* is_locked, line 70: open(path, "ab") succeeds, and creates the file, empty,
\* when it is no longer there
RunLockOpen(r) ==
  /\ RunAt(r, "open")
  /\ final' = [final EXCEPT ![RunFolder] = IF @ = "none" THEN "partial" ELSE @]
  /\ Goto(r, "pipeline")
  /\ UNCHANGED << soloVars, src >>

\* what tar | zstd can leave at tmp_arc given the source tree it reads:
\* tar exits 0 on the files it finds, or non-zero when files or the
\* directory are gone under it
TarOutcomes(tree) ==
  IF tree = "present" THEN {"new"}
  ELSE IF tree = "partial" THEN {"short", "partial"}
  ELSE {"partial"}

\* lines 388-392 and, when the pipeline raises, 407-417
RunPipeline(r) ==
  /\ RunAt(r, "pipeline")
  /\ \E out \in TarOutcomes(src[RunFolder]) :
       runs' = [runs EXCEPT
         ![r].tmp = out,
         ![r].attempt = IF out = "partial" THEN @ + 1 ELSE @,
         ![r].pc = IF out # "partial" THEN "unlink"
                   ELSE IF MoreAttempts(runs[r].attempt + 1) THEN "pipeline"
                   ELSE "done",
         ![r].status = IF out = "partial" /\ ~MoreAttempts(runs[r].attempt + 1)
                       THEN "ARCHIVE_FAILED" ELSE @]
  /\ UNCHANGED << soloVars, src, final >>

\* lines 394-395: if final_arc.exists(): final_arc.unlink()
RunUnlink(r) ==
  /\ RunAt(r, "unlink")
  /\ final' = [final EXCEPT ![RunFolder] = "none"]
  /\ Goto(r, "replace")
  /\ UNCHANGED << soloVars, src >>

\* lines 396-401 and 419: tmp_arc.replace(final_arc), the row ARCHIVED
RunReplace(r) ==
  /\ RunAt(r, "replace")
  /\ final' = [final EXCEPT ![RunFolder] = runs[r].tmp]
  /\ runs' = [runs EXCEPT ![r].tmp = "none", ![r].status = "ARCHIVED",
                          ![r].pc = IF DELETE_AFTER_ARCHIVE THEN "rmtree" ELSE "done"]
  /\ UNCHANGED << soloVars, src >>

\* line 421: shutil.rmtree(folder) starts removing, or raises at once when
\* the folder is no longer there
RunRmtreeBegin(r) ==
  /\ RunAt(r, "rmtree")
  /\ IF src[RunFolder] = "deleted"
     THEN Finish(r, "DELETE_FAILED") /\ UNCHANGED src
     ELSE Goto(r, "removing") /\ src' = [src EXCEPT ![RunFolder] = "partial"]
  /\ UNCHANGED << soloVars, final >>

\* lines 421-423: shutil.rmtree(folder) has removed the last entry
RunRmtreeEnd(r) ==
  /\ RunAt(r, "removing")
  /\ src' = [src EXCEPT ![RunFolder] = "deleted"]
  /\ Finish(r, "DELETED")
  /\ UNCHANGED << soloVars, final >>

NextTwoRuns ==
  \E r \in Runs :
    \/ RunExists(r)
    \/ RunSkipCheck(r)
    \/ RunLockExists(r)
    \/ RunLockOpen(r)
    \/ RunPipeline(r)
    \/ RunUnlink(r)
    \/ RunReplace(r)
    \/ RunRmtreeBegin(r)
    \/ RunRmtreeEnd(r)

SpecTwoRuns == InitTwoRuns /\ [][NextTwoRuns]_vars

\* ------------------------------------------------- bucket range harness
\* values START_BUCKET and MAX_BUCKET may be edited to: every bucket label
\* and a label that is not in BUCKET_ORDER
BucketInputs == {BUCKET_ORDER[i] : i \in 1..Len(BUCKET_ORDER)} \cup {"bogus"}

\* main() at line 345, the scan done, for every configured pair
InitRange ==
  /\ DELETE_AFTER_ARCHIVE = FALSE
  /\ SKIP_EXISTING_ARCHIVES = TRUE
  /\ START_BUCKET \in BucketInputs
  /\ MAX_BUCKET \in BucketInputs
  /\ bytes_of = [f \in Folders |-> Some(Bytes(512, 0))]
  /\ src = [f \in Folders |-> "present"]
  /\ final = [f \in Folders |-> "none"]
  /\ final0 = final
  /\ tmp = "none"
  /\ pc = "scan"
  /\ exc = ""
  /\ si = Len(Subfolders) + 1
  /\ scan_rows = [i \in 1..Len(Subfolders) |->
                    ScanRow(Subfolders[i], Some(Bytes(512, 0)))]
  /\ run_buckets = <<>>
  /\ bi = 1
  /\ items = <<>>
  /\ ii = 1
  /\ attempt = 1
  /\ ok = FALSE
  /\ last_err = ""
  /\ arch_log = <<>>
  /\ log_file = None
  /\ totals_after = FALSE
  /\ attempts = <<>>
  /\ held = FALSE
  /\ faults = 0
  /\ rcs = <<>>
  /\ runs = <<>>

SpecRange == InitRange /\ [][SelectBuckets]_vars

\* ------------------------------------------------- size and bucket harness
\* thresholds of bucketize, in GB
BandLimits == << 1, 10, 50, 200, 500, 1000, 10000 >>

\* byte counts the size probe may return: nothing, 2^27 bytes (0.125 GB, an
\* exact tie of the rounding), and around each threshold T: T - 11 MiB
\* (rounds to T - 0.01 GB), one byte less than T GiB (rounds to T), T GiB
ByteSamples ==
  { Bytes(0, 0), Bytes(128, 0) } \cup
  UNION { { Bytes(BandLimits[k] * 1024 - 11, 0),
            Bytes(BandLimits[k] * 1024 - 1, Two20 - 1),
            Bytes(BandLimits[k] * 1024, 0) } : k \in 1..Len(BandLimits) }

\* main() at line 278 for every result of the size probe of every folder
InitBucket ==
  /\ DELETE_AFTER_ARCHIVE = FALSE
  /\ SKIP_EXISTING_ARCHIVES = TRUE
  /\ START_BUCKET = "<1 GB"
  /\ MAX_BUCKET = "50-200 GB"
  /\ bytes_of \in [Folders -> {None} \cup {Some(b) : b \in ByteSamples}]
  /\ src = [f \in Folders |-> "present"]
  /\ final = [f \in Folders |-> "none"]
  /\ final0 = final
  /\ tmp = "none"
  /\ pc = "scan"
  /\ exc = ""
  /\ si = 1
  /\ scan_rows = <<>>
  /\ run_buckets = <<>>
  /\ bi = 1
  /\ items = <<>>
  /\ ii = 1
  /\ attempt = 1
  /\ ok = FALSE
  /\ last_err = ""
  /\ arch_log = <<>>
  /\ log_file = None
  /\ totals_after = FALSE
  /\ attempts = <<>>
  /\ held = FALSE
  /\ faults = 0
  /\ rcs = <<>>
  /\ runs = <<>>

\* one iteration of lines 278-300, the probe returning bytes_of[sf]
ScanMeasured ==
  /\ pc = "scan"
  /\ si <= Len(Subfolders)
  /\ scan_rows' = Append(scan_rows,
                         ScanRow(Subfolders[si], bytes_of[Subfolders[si]]))
  /\ si' = si + 1
  /\ UNCHANGED << cfgVars, rcs, faults, held, bytes_of, src, final, tmp, pc, exc,
                  run_buckets, bi, items, ii, attempt, ok, last_err, arch_log,
                  log_file, totals_after, attempts >>

SpecBucket == InitBucket /\ [][ScanMeasured]_vars

\* ------------------------------------------------------------- claims
Valid(b) == InOrder(b)

RangeSelected == pc # "scan" /\ pc # "crashed"

LastRow == arch_log[Len(arch_log)]

RowsOf(f) == {i \in 1..Len(arch_log) : arch_log[i].folder = f}

Removed(f) == src[f] = "deleted" \/ src[f] = "partial"

\* the items loop has just finished a folder: the last row is that folder's
\* and attempts holds its attempts
JustRecorded == pc = "folder" /\ ii > 1 /\ arch_log # <<>>

\* C1: the final path of no folder ever holds a partial file; a file the run
\* put there is a complete archive, and while an attempt has failed or is
\* under way the only place a partial file can be is the temporary path.
C1_FinalNeverPartial ==
  \A f \in Folders :
    /\ final[f] \in {"none", "old", "new"}
    /\ final[f] = "old" => final0[f] = "old"

\* C1 witness: a first attempt failed in the serialize stage and left a
\* partial temporary file, the second attempt was published
C1_Witness ==
  /\ JustRecorded
  /\ attempts = << tar_zst_dir_contents(2, 0), "ok" >>
  /\ LastRow.status = "ARCHIVED"
  /\ final[LastRow.folder] = "new"
  /\ final0[LastRow.folder] = "old"

\* C2: a source folder the run removed (wholly or in part) has a complete
\* archive made by this run at its final path, delete-after-archive is on
\* and its row says the folder was archived; a folder whose outcome is
\* MISSING, SKIP_EXISTS, SKIP_LOCKED(_ARCHIVE) or ARCHIVE_FAILED was not
\* touched by the run.
C2_DeleteOnlyAfterPublish ==
  /\ \A f \in Folders :
       Removed(f) =>
         /\ DELETE_AFTER_ARCHIVE
         /\ final[f] = "new"
         /\ \E i \in RowsOf(f) :
              arch_log[i].status \in {"ARCHIVED", "DELETED", "DELETE_FAILED"}
  /\ \A i \in 1..Len(arch_log) :
       arch_log[i].status \in {"MISSING", "SKIP_EXISTS", "SKIP_LOCKED",
                               "SKIP_LOCKED_ARCHIVE", "ARCHIVE_FAILED"}
         => ~Removed(arch_log[i].folder)

\* C2 witness: the run has removed a source folder
C2_Witness ==
  \E f \in Folders : src[f] = "deleted" /\ final[f] = "new" /\ final0[f] = "old"

\* a step of CheckFolder: the folder at items[ii] is probed
Probing == pc = "folder" /\ ii <= Len(items) /\ pc' # "crashed"

\* the row CheckFolder appended
Skipped == Len(arch_log') = Len(arch_log) + 1

\* the three skip decisions, the third one under the name `locked`
DecisionOrder(locked) ==
  Probing =>
    LET f     == CurFolder
        there == src'[f] \in {"present", "partial"}
        row   == arch_log'[Len(arch_log')]
    IN  /\ ~there => Skipped /\ row.status = "MISSING"
        /\ (there /\ SKIP_EXISTING_ARCHIVES /\ final[f] # "none")
             => Skipped /\ row.status = "SKIP_EXISTS"
        /\ (there /\ ~(SKIP_EXISTING_ARCHIVES /\ final[f] # "none")
                  /\ final[f] # "none" /\ held')
             => Skipped /\ row.status = locked
        /\ (there /\ ~(SKIP_EXISTING_ARCHIVES /\ final[f] # "none")
                  /\ ~(final[f] # "none" /\ held'))
             => ~Skipped /\ pc' = "attempt"
        /\ Skipped => /\ row.folder = f
                      /\ pc' = "folder" /\ ii' = ii + 1
                      /\ final' = final /\ tmp' = "none" /\ attempts' = <<>>

\* C3 as stated: a destination that exists and is locked gives the status
\* SKIP_LOCKED
C3_Original == [][DecisionOrder("SKIP_LOCKED")]_vars

\* C3: the decisions are taken in the order missing source, existing
\* destination with skip-existing on, locked destination, and the first that
\* applies gives the row MISSING, SKIP_EXISTS or SKIP_LOCKED_ARCHIVE and no
\* attempt; an attempt starts only when none applies.
C3_DecisionOrder == [][DecisionOrder("SKIP_LOCKED_ARCHIVE")]_vars

\* C3 witness: a folder with a locked destination was skipped, skip-existing
\* being off
C3_Witness ==
  /\ arch_log # <<>>
  /\ LastRow.status = "SKIP_LOCKED_ARCHIVE"
  /\ held /\ ~SKIP_EXISTING_ARCHIVES
  /\ final[LastRow.folder] = "old"

\* C4: a folder recorded ARCHIVE_FAILED without a cancellation had exactly
\* RETRIES attempts, all failed, and the note is the error of the last one;
\* the retry loop never waits after more than RETRIES attempts.
C4_FailedAfterRetries ==
  /\ (JustRecorded /\ LastRow.status = "ARCHIVE_FAILED"
        /\ LastRow.note # "KeyboardInterrupt")
       => /\ Len(attempts) = RETRIES
          /\ \A k \in 1..Len(attempts) : attempts[k] \notin {"ok", "KeyboardInterrupt"}
          /\ LastRow.note = attempts[Len(attempts)]
  /\ Len(attempts) <= RETRIES
  /\ pc \in {"attempt", "sleep"} =>
       \A k \in 1..Len(attempts) : attempts[k] \notin {"ok", "KeyboardInterrupt"}
  /\ pc = "attempt" => Len(attempts) < RETRIES

\* C4 witness: two attempts failed for different reasons and the folder was
\* recorded as failed
C4_Witness ==
  /\ JustRecorded
  /\ LastRow.status = "ARCHIVE_FAILED"
  /\ attempts = << tar_zst_dir_contents(2, 0), tar_zst_dir_contents(0, 1) >>
  /\ LastRow.note = tar_zst_dir_contents(0, 1)

\* C5 as stated: a run that ended, normally or by a cancellation, has
\* written the archive log with every recorded outcome and has reported the
\* after-archiving totals
C5_LogAlwaysWritten ==
  (pc = "done" \/ (pc = "crashed" /\ exc = "KeyboardInterrupt"))
    => (log_file = Some(arch_log) /\ totals_after)

\* C6: a cancellation inside an attempt is the last attempt of its folder,
\* the folder is recorded ARCHIVE_FAILED with the note KeyboardInterrupt,
\* that row stays the last row of the log and no folder is probed after it.
C6_CancelStopsRun ==
  /\ \A k \in 1..Len(attempts) :
       attempts[k] = "KeyboardInterrupt" =>
         /\ k = Len(attempts)
         /\ arch_log # <<>> /\ LastRow.note = "KeyboardInterrupt"
  /\ \A i \in 1..Len(arch_log) :
       arch_log[i].note = "KeyboardInterrupt" =>
         /\ i = Len(arch_log)
         /\ arch_log[i].status = "ARCHIVE_FAILED"
         /\ \/ pc = "folder" /\ ii > Len(items)
            \/ pc \in {"save", "done"}

InRange(b) == \E k \in 1..Len(run_buckets) : run_buckets[k] = b

Processable == {i \in 1..Len(scan_rows) :
                  scan_rows[i].status = "OK" /\ InRange(scan_rows[i].bucket)}

\* C6 witness: the run ended after a cancelled attempt, leaving a folder of
\* the range without a row
C6_Witness ==
  /\ pc = "done"
  /\ arch_log # <<>> /\ LastRow.note = "KeyboardInterrupt"
  /\ Len(arch_log) < Cardinality(Processable)

\* the statuses the claim lists
ClaimedStatuses == {"MISSING", "SKIP_EXISTS", "SKIP_LOCKED", "ARCHIVE_FAILED",
                    "ARCHIVED", "DELETED"}

\* the statuses main() writes
WrittenStatuses == {"MISSING", "SKIP_EXISTS", "SKIP_LOCKED_ARCHIVE",
                    "ARCHIVE_FAILED", "ARCHIVED", "DELETED", "DELETE_FAILED"}

\* shutil.rmtree raised an Exception after removing a part of f (an
\* interrupted rmtree leaves main() with f's row still the last one)
RemovalFailed(f) ==
  /\ src[f] = "partial"
  /\ ~(pc = "crashed" /\ exc = "KeyboardInterrupt" /\ arch_log # <<>>
         /\ LastRow.folder = f /\ LastRow.status = "ARCHIVED")

\* C7 as stated: after a failed removal the row keeps the status ARCHIVED and
\* has a note, the archive stays; after a removal the status is DELETED; the
\* status is one of the six listed
C7_Original ==
  /\ \A i \in 1..Len(arch_log) : arch_log[i].status \in ClaimedStatuses
  /\ \A f \in Folders :
       RemovalFailed(f) =>
         \E i \in RowsOf(f) : arch_log[i].status = "ARCHIVED" /\ arch_log[i].note # ""
  /\ \A f \in Folders :
       src[f] = "deleted" => \E i \in RowsOf(f) : arch_log[i].status = "DELETED"

C7_State ==
  /\ \A i \in 1..Len(arch_log) :
       /\ arch_log[i].status \in WrittenStatuses
       /\ arch_log[i].status = "DELETE_FAILED" =>
            /\ arch_log[i].note = "OSError: rmtree"
            /\ src[arch_log[i].folder] \in {"present", "partial"}
            /\ final[arch_log[i].folder] = "new"
       /\ arch_log[i].status = "DELETED" =>
            /\ arch_log[i].note = ""
            /\ src[arch_log[i].folder] = "deleted"
            /\ final[arch_log[i].folder] = "new"
  /\ \A f \in Folders :
       /\ RemovalFailed(f) => \E i \in RowsOf(f) : arch_log[i].status = "DELETE_FAILED"
       /\ src[f] = "deleted" => \E i \in RowsOf(f) : arch_log[i].status = "DELETED"

C7_Step ==
  (pc = "delete" /\ pc' # "crashed") =>
    /\ pc' = "folder" /\ ii' = ii + 1
    /\ final' = final
    /\ Len(arch_log') = Len(arch_log)
    /\ arch_log'[Len(arch_log)].status =
         (IF src'[CurFolder] = "deleted" THEN "DELETED" ELSE "DELETE_FAILED")

\* C7 (amended): after a failed removal the row's status is DELETE_FAILED and
\* its note is the error text, the archive stays at the final path and the
\* items loop goes on to the next folder; after a removal the status is
\* DELETED; the status is always one of MISSING, SKIP_EXISTS,
\* SKIP_LOCKED_ARCHIVE, ARCHIVE_FAILED, ARCHIVED, DELETED, DELETE_FAILED.
C7_DeleteOutcome == []C7_State /\ [][C7_Step]_vars

\* C7 witness: a removal failed midway and the run went on to record the
\* next folder
C7_Witness ==
  /\ Len(arch_log) >= 2
  /\ arch_log[1].status = "DELETE_FAILED"
  /\ src[arch_log[1].folder] = "partial"
  /\ arch_log[2].status = "DELETED"

\* C8: with skip-existing on, an archive that was there when the run began is
\* never written, removed or replaced, its folder gets no attempt, and the
\* folder's row, if its source is still there, is SKIP_EXISTS; a row
\* SKIP_EXISTS is only given to such a folder.
C8_SkipExistsKeepsArchive ==
  /\ SKIP_EXISTING_ARCHIVES =>
       \A f \in Folders :
         final0[f] = "old" =>
           /\ final[f] = "old"
           /\ \A i \in RowsOf(f) :
                /\ arch_log[i].status \in {"MISSING", "SKIP_EXISTS"}
                /\ arch_log[i].status = "MISSING" => src[f] = "vanished"
           /\ pc \in {"attempt", "sleep", "delete"} => CurFolder # f
  /\ \A i \in 1..Len(arch_log) :
       arch_log[i].status = "SKIP_EXISTS" =>
         /\ SKIP_EXISTING_ARCHIVES
         /\ final0[arch_log[i].folder] = "old"
         /\ final[arch_log[i].folder] = "old"
         /\ src[arch_log[i].folder] = "present"
         /\ arch_log[i].archive = ArcPath(arch_log[i].folder)

\* C8 witness: the run is over, every folder had its archive from an earlier
\* run and every one was recorded SKIP_EXISTS
C8_Witness ==
  /\ pc = "done"
  /\ Len(arch_log) = Len(Subfolders)
  /\ \A i \in 1..Len(arch_log) :
       arch_log[i].status = "SKIP_EXISTS" /\ final[arch_log[i].folder] = "old"

\* C9: every folder is in the scan report; a folder gets a row in the archive
\* log, or an attempt, only if its scan row has status OK and a bucket of the
\* selected range; a folder whose size was not measured is reported without
\* size in bucket Unknown; a 600 GB folder is reported OK in "500 GB-1 TB".
C9_OnlyOkInRange ==
  /\ si > Len(Subfolders) =>
       /\ Len(scan_rows) = Len(Subfolders)
       /\ \A j \in 1..Len(scan_rows) : scan_rows[j].folder = Subfolders[j]
  /\ \A j \in 1..Len(scan_rows) :
       /\ scan_rows[j].status = "SIZE_FAILED" =>
            scan_rows[j].size_gb = None /\ scan_rows[j].bucket = "Unknown"
       /\ bytes_of[scan_rows[j].folder] = Some(Bytes(614400, 0)) =>
            scan_rows[j].status = "OK" /\ scan_rows[j].bucket = "500 GB-1 TB"
  /\ \A i \in 1..Len(arch_log) :
       \E j \in Processable :
         /\ scan_rows[j].folder = arch_log[i].folder
         /\ scan_rows[j].bucket = arch_log[i].bucket
  /\ pc \in {"attempt", "sleep", "delete"} =>
       \E j \in Processable : scan_rows[j].folder = CurFolder

\* C9 witness: the run is over, a 600 GB folder outside the range is in the
\* scan report and has no row, a folder of the range was archived
C9_Witness ==
  /\ pc = "done"
  /\ \E j \in 1..Len(scan_rows) :
       /\ scan_rows[j].bucket = "500 GB-1 TB" /\ scan_rows[j].status = "OK"
       /\ ~InRange("500 GB-1 TB")
       /\ RowsOf(scan_rows[j].folder) = {}
  /\ \E i \in 1..Len(arch_log) : arch_log[i].status = "ARCHIVED"

\* C10: once the range is selected, run_buckets is a non-empty contiguous
\* slice of BUCKET_ORDER; when both configured labels are buckets its first
\* and last elements are the two configured buckets, the earlier one first,
\* and the slice is the one the swapped pair gives.
C10_RangeIsSlice ==
  RangeSelected =>
    /\ Len(run_buckets) >= 1
    /\ \E lo \in 1..Len(BUCKET_ORDER) :
         /\ lo + Len(run_buckets) - 1 <= Len(BUCKET_ORDER)
         /\ \A k \in 1..Len(run_buckets) : run_buckets[k] = BUCKET_ORDER[lo + k - 1]
    /\ (Valid(START_BUCKET) /\ Valid(MAX_BUCKET)) =>
         /\ {run_buckets[1], run_buckets[Len(run_buckets)]} = {START_BUCKET, MAX_BUCKET}
         /\ IndexOf(run_buckets[1]) <= IndexOf(run_buckets[Len(run_buckets)])
         /\ run_buckets = buckets_to_run(MAX_BUCKET, START_BUCKET)

\* C10 witness: the end bucket precedes the start bucket and the range was
\* selected
C10_Witness ==
  /\ RangeSelected
  /\ Valid(START_BUCKET) /\ Valid(MAX_BUCKET)
  /\ IndexOf(MAX_BUCKET) < IndexOf(START_BUCKET)
  /\ Len(run_buckets) > 1

\* b1 <= b2 for byte counts
LeqBytes(x, y) == x.mib < y.mib \/ (x.mib = y.mib /\ x.rem <= y.rem)

\* position in BUCKET_ORDER of the band of c hundredths of a GB, from the
\* table of thresholds: one more than the number of thresholds c has reached
BandIndex(c) ==
  1 + Cardinality({k \in 1..Len(BandLimits) : c >= BandLimits[k] * 100})

\* c hundredths of a GB is within half a hundredth of the byte count b:
\* | 100 * b - c * 2^30 | <= 2^29, computed in units of 2^20
NearestHundredth(b, c) ==
  LET d == (100 * b.mib - 1024 * c) * Two20 + 100 * b.rem
  IN  d <= 512 * Two20 /\ -d <= 512 * Two20

RowOf(f) == scan_rows[CHOOSE j \in 1..Len(scan_rows) : scan_rows[j].folder = f]

Scanned(f) == \E j \in 1..Len(scan_rows) : scan_rows[j].folder = f

\* C11: every scanned folder has a bucket of BUCKET_ORDER; a folder whose
\* size was measured has the size rounded to the nearest hundredth of a GB
\* and the band that the thresholds 1, 10, 50, 200, 500, 1000, 10000 GB give
\* that rounded size (a size strictly below a threshold is in the lower
\* band, a size equal to it in the upper one), never "Unknown"; a folder
\* without a size has "Unknown"; and of two measured folders the one with
\* fewer bytes does not have the later bucket.
C11_BucketTotalMonotonic ==
  /\ \A f \in Folders : Scanned(f) =>
       /\ InOrder(RowOf(f).bucket)
       /\ bytes_of[f] = None =>
            RowOf(f).size_gb = None /\ RowOf(f).bucket = "Unknown"
       /\ bytes_of[f] # None =>
            /\ IsNum(RowOf(f).size_gb)
            /\ NearestHundredth(Val(bytes_of[f]), Val(RowOf(f).size_gb))
            /\ RowOf(f).bucket = BUCKET_ORDER[BandIndex(Val(RowOf(f).size_gb))]
            /\ RowOf(f).bucket # "Unknown"
  /\ \A f, g \in Folders :
       (/\ Scanned(f) /\ Scanned(g)
        /\ bytes_of[f] # None /\ bytes_of[g] # None
        /\ LeqBytes(Val(bytes_of[f]), Val(bytes_of[g])))
       => IndexOf(RowOf(f).bucket) <= IndexOf(RowOf(g).bucket)

\* C11 witness: two folders were scanned, one of exactly 1 GiB and one of a
\* byte less; both are in "1-10 GB", the rounding having taken the smaller
\* one to 1.0 GB
C11_Witness ==
  /\ Len(scan_rows) >= 2
  /\ bytes_of[Subfolders[1]] = Some(Bytes(1023, Two20 - 1))
  /\ bytes_of[Subfolders[2]] = Some(Bytes(1024, 0))
  /\ scan_rows[1].bucket = "1-10 GB"
  /\ scan_rows[2].bucket = "1-10 GB"

\* C12: the size probe never raises: no exception of the probe leaves
\* main() during the scan, and every folder the probe gave no size for has a
\* scan row with no size, bucket "Unknown" and status SIZE_FAILED, the scan
\* going on with the next folder.
C12_ProbeNeverRaises ==
  /\ ~(pc = "crashed" /\ exc \in {"OSError", "ValueError"})
  /\ \A j \in 1..Len(scan_rows) :
       bytes_of[scan_rows[j].folder] = None =>
         /\ scan_rows[j].size_gb = None
         /\ scan_rows[j].bucket = "Unknown"
         /\ scan_rows[j].status = "SIZE_FAILED"

\* every row of the log before the step is the same row after it
RowsKept ==
  /\ Len(arch_log') >= Len(arch_log)
  /\ \A i \in 1..Len(arch_log) : arch_log'[i] = arch_log[i]

RowBeingDeleted(i) ==
  /\ pc = "delete" /\ DELETE_AFTER_ARCHIVE
  /\ i = Len(arch_log)
  /\ arch_log[i].folder = CurFolder /\ arch_log[i].status = "ARCHIVED"

C13_State ==
  /\ \A f \in Folders : Cardinality(RowsOf(f)) <= 1
  /\ pc = "delete" => RowBeingDeleted(Len(arch_log))
  /\ \A i \in 1..Len(arch_log) :
       arch_log[i].status \in {"DELETED", "DELETE_FAILED"} => DELETE_AFTER_ARCHIVE

C13_Step ==
  /\ Len(arch_log') >= Len(arch_log)
  /\ Len(arch_log') <= Len(arch_log) + 1
  /\ \A i \in 1..Len(arch_log) :
       IF RowBeingDeleted(i)
       THEN /\ arch_log'[i].bucket = arch_log[i].bucket
            /\ arch_log'[i].folder = arch_log[i].folder
            /\ arch_log'[i].archive = arch_log[i].archive
            /\ arch_log'[i].size_gb = arch_log[i].size_gb
            /\ \/ arch_log'[i] = arch_log[i]
               \/ /\ arch_log'[i].status \in {"DELETED", "DELETE_FAILED"}
                  /\ pc' # "delete"
       ELSE arch_log'[i] = arch_log[i]

AllSettled ==
  /\ pc = "done"
  /\ log_file = Some(arch_log) /\ totals_after
  /\ \A j \in Processable :
       /\ Cardinality(RowsOf(scan_rows[j].folder)) = 1
       /\ \A i \in RowsOf(scan_rows[j].folder) :
            arch_log[i].status \in WrittenStatuses

\* C14: without cancellation the archive phase, and with it the run, comes
\* to its end, whatever folders are missing, skipped, fail all attempts or
\* fail removal: no exception leaves main(), and at the end every OK folder
\* of the selected range has a terminal outcome row and the archive log is
\* persisted.
C14_RunCompletes ==
  /\ [](pc # "crashed")
  /\ [](pc = "done" => AllSettled)
  /\ <>AllSettled

\* C14 witness: the run ended with one folder that failed all its attempts
\* and a later folder that was archived
C14_Witness ==
  /\ AllSettled
  /\ Len(arch_log) >= 2
  /\ arch_log[1].status = "ARCHIVE_FAILED"
  /\ arch_log[2].status \in {"ARCHIVED", "DELETED"}

\* a row whose status can no longer change
Terminal(i) ==
  /\ arch_log[i].status \in WrittenStatuses
  /\ (arch_log[i].status = "ARCHIVED" /\ DELETE_AFTER_ARCHIVE) =>
       (i = Len(arch_log) /\ pc \in {"delete", "crashed"})

\* folders the loops have gone past or are at: those of the buckets before
\* the current one, and the items of the current bucket up to position n
Before(n) ==
  {scan_rows[j].folder : j \in {k \in Processable :
      \E m \in 1..(bi - 1) : m <= Len(run_buckets) /\ run_buckets[m] = scan_rows[k].bucket}}
  \cup {items[k].folder : k \in 1..n}

\* C15: the rows of the log are in the order (position of the bucket in
\* BUCKET_ORDER, recorded size): a later row never has an earlier bucket, nor,
\* in the same bucket, a smaller size; and folders are processed one at a
\* time: rows exist only for folders the loops have reached, and while a
\* folder is probed or attempted every folder before it in that order has
\* its row, which, but for the source removal of the last one, is final.
C15_SequentialOrder ==
  /\ \A i, j \in 1..Len(arch_log) : i < j =>
       /\ IndexOf(arch_log[i].bucket) <= IndexOf(arch_log[j].bucket)
       /\ arch_log[i].bucket = arch_log[j].bucket =>
            /\ IsNum(arch_log[i].size_gb) /\ IsNum(arch_log[j].size_gb)
            /\ Val(arch_log[i].size_gb) <= Val(arch_log[j].size_gb)
  /\ \A i \in 1..Len(arch_log) : Terminal(i)
  /\ (pc \in {"attempt", "sleep"} \/ (pc = "folder" /\ ii <= Len(items))) =>
       /\ \A f \in Before(ii - 1) : Cardinality(RowsOf(f)) = 1
       /\ \A i \in 1..Len(arch_log) :
            /\ arch_log[i].folder \in Before(ii - 1)
            /\ arch_log[i].status = "ARCHIVED" => ~DELETE_AFTER_ARCHIVE

\* C15 witness: the scan listed folder a (0.5 GB) before folder b (0.25 GB);
\* b was processed first, and a is being attempted with b's row written
C15_Witness ==
  /\ pc = "attempt"
  /\ CurFolder = "a"
  /\ Len(arch_log) = 1
  /\ arch_log[1].folder = "b"
  /\ arch_log[1].size_gb = Some(25)
  /\ CurRow.size_gb = Some(50)

\* statuses of a row whose folder was archived (the code writes DELETE_FAILED
\* when the removal that follows fails)
ArchivedStatuses == {"ARCHIVED", "DELETED", "DELETE_FAILED"}

\* C16: a folder gets at most RETRIES attempts, a successful attempt is the
\* last one, and a folder's row says it was archived if and only if an
\* attempt of the run got both stages to exit 0 and renamed the temporary
\* file to the final path.
C16_StopAtFirstSuccess ==
  /\ Len(attempts) <= RETRIES
  /\ \A k \in 1..(Len(attempts) - 1) : attempts[k] # "ok"
  /\ \A i \in 1..Len(arch_log) :
       arch_log[i].status \in ArchivedStatuses <=> final[arch_log[i].folder] = "new"

\* the error text an attempt ends with when stage `name` failed with exit
\* code rc and diagnostic output diag
StageError(name, rc, diag) == name \o " failed (rc=" \o ToString(rc) \o "): " \o diag

\* the pipeline of the last attempt ran to the exit of both stages
PipelineEnded == rcs # <<>> /\ attempts # <<>>

LastAttempt == attempts[Len(attempts)]

\* C17: the pipeline of an attempt raises if and only if a stage exited
\* non-zero, and the error names the stage that failed and carries its
\* diagnostic output: whenever zstd exited non-zero (tar exiting non-zero as
\* well or not) the error of the attempt is zstd's, with zstd's stderr text,
\* and so is the note of ARCHIVE_FAILED when that attempt was the last.
C17_ErrorNamesStage ==
  PipelineEnded =>
    /\ (rcs[1] = 0 /\ rcs[2] = 0) =>
         LastAttempt \notin {StageError("tar", c, TAR_ERR) : c \in TarCodes}
                          \cup {StageError("zstd", c, ZSTD_ERR) : c \in ZstdCodes}
    /\ rcs[2] # 0 =>
         /\ LastAttempt = StageError("zstd", rcs[2], ZSTD_ERR)
         /\ (JustRecorded /\ LastRow.status = "ARCHIVE_FAILED") =>
              LastRow.note = StageError("zstd", rcs[2], ZSTD_ERR)
    /\ (rcs[1] # 0 /\ rcs[2] = 0) =>
         LastAttempt = StageError("tar", rcs[1], TAR_ERR)

\* C18: with two interleaved runs, the file at the final path is never a
\* partially written one, and once a run has begun to remove the source
\* folder the file at its final path is a complete archive of the folder's
\* full contents, and stays so.
C18_TwoRunsSafe ==
  runs # <<>> =>
    /\ final[RunFolder] # "partial"
    /\ src[RunFolder] \in {"partial", "deleted"} =>
         final[RunFolder] \in {"new", "old"}

\* C19: with skip-existing disabled, a final path that held a complete
\* archive when the run began holds a complete archive, the old one or the
\* new one, in every later state; and a folder recorded ARCHIVE_FAILED
\* still has the archive it had.
C19_NeverLosesArchive ==
  ~SKIP_EXISTING_ARCHIVES =>
    /\ \A f \in Folders : final0[f] = "old" => final[f] \in {"old", "new"}
    /\ \A i \in 1..Len(arch_log) :
         (arch_log[i].status = "ARCHIVE_FAILED" /\ final0[arch_log[i].folder] = "old")
           => final[arch_log[i].folder] = "old"

C20_State ==
  ~DELETE_AFTER_ARCHIVE =>
    /\ \A f \in Folders : src[f] \in {"present", "vanished"}
    /\ pc # "delete"
    /\ \A i \in 1..Len(arch_log) :
         arch_log[i].status \notin {"DELETED", "DELETE_FAILED"}

C20_Step ==
  ~DELETE_AFTER_ARCHIVE =>
    \A f \in Folders : src'[f] # src[f] => (src'[f] = "vanished" /\ pc = "folder")

\* C20: with delete-after-archive disabled no step of the run removes or
\* changes a source folder: a folder is as it was when the run began, or was
\* found gone (removed by someone else) when the run came to probe it; the
\* removal is never started and no row is DELETED or DELETE_FAILED.
C20_SourceUntouched == []C20_State /\ [][C20_Step]_vars

\* C20 witness: with delete-after-archive disabled the run ended with one
\* folder archived and one failed, and every source folder is there
C20_Witness ==
  /\ ~DELETE_AFTER_ARCHIVE
  /\ pc = "done"
  /\ \E i \in 1..Len(arch_log) : arch_log[i].status = "ARCHIVED"
  /\ \E i \in 1..Len(arch_log) : arch_log[i].status = "ARCHIVE_FAILED"
  /\ \A f \in Folders : src[f] = "present"

====
